---------------------------- MODULE Spec2Model ----------------------------
(***************************************************************************)
(* windtools/amrwind/post_processing.py: the Sampling reader (group        *)
(* metadata, plane reshaping, persistence, VTK export) and addDatetime.    *)
(*                                                                         *)
(* Arrays are functions from 0-based index tuples to elements; a raw       *)
(* element of the container file is the symbolic value <<name, t, p>>      *)
(* (variable, time step, point), so every element of a field is            *)
(* distinguishable.  Strings that the code inspects character by           *)
(* character (paths, group names) are sequences of one-character strings.  *)
(***************************************************************************)
EXTENDS Integers, Sequences, FiniteSets, TLC

VARIABLES self, call, ret, stores, vtk, held

vars == <<self, call, ret, stores, vtk, held>>

\* Largest number of grid points per direction of a sampled group.
MaxN == 2
\* Largest number of time steps stored in a group.
MaxNdt == 3
\* Largest stride passed as `step`.
MaxStep == 2

None == "None"
Unset == "unset"

\* an optional argument: absent (python's None) or a value
Absent == [some |-> FALSE, val |-> << >>]
Some(v) == [some |-> TRUE, val |-> v]

-----------------------------------------------------------------------------
(* Python / numpy / os.path helpers, as the library calls behave.          *)

RECURSIVE Range(_, _, _)
\* range(start, stop, step) for step >= 1
Range(start, stop, step) ==
    IF start >= stop THEN << >>
    ELSE <<start>> \o Range(start + step, stop, step)

\* slice.indices: a negative bound counts from the end, then both are clamped
Clamp(i, n) ==
    IF i < 0 THEN (IF i + n < 0 THEN 0 ELSE i + n)
    ELSE IF i > n THEN n ELSE i

\* the indices selected by [start:stop:step] on an axis of length n
Slice(start, stop, step, n) == Range(Clamp(start, n), Clamp(stop, n), step)

Reverse(s) == [d \in 1..Len(s) |-> s[Len(s) + 1 - d]]

RECURSIVE Prod(_)
Prod(s) == IF s = << >> THEN 1 ELSE Head(s) * Prod(Tail(s))

SeqMax(s) == IF s = << >> THEN 0 ELSE CHOOSE m \in {s[d] : d \in 1..Len(s)} :
                                           \A e \in 1..Len(s) : s[e] <= m

\* all index tuples of an array of the given shape
IndexSet(shape) ==
    {idx \in [1..Len(shape) -> 0..(SeqMax(shape) - 1)] :
        \A d \in 1..Len(shape) : idx[d] < shape[d]}

RECURSIVE Offset(_, _, _)
\* row-major (C order) offset of idx[1..d] in an array of the given shape
Offset(idx, shape, d) ==
    IF d = 0 THEN 0 ELSE Offset(idx, shape, d - 1) * shape[d] + idx[d]

\* np.reshape(flat, shape): ValueError (ok = FALSE) when the sizes differ
Reshape(flat, shape) ==
    IF Len(flat) # Prod(shape) THEN [ok |-> FALSE, a |-> << >>]
    ELSE [ok |-> TRUE,
          a  |-> [idx \in IndexSet(shape) |-> flat[Offset(idx, shape, Len(shape)) + 1]]]

\* ndarray.T: the axes reversed
Transpose(a, shape) == [idx \in IndexSet(Reverse(shape)) |-> a[Reverse(idx)]]

RECURSIVE SortedSeq(_)
SortedSeq(S) ==
    IF S = {} THEN << >>
    ELSE LET m == CHOOSE a \in S : \A b \in S : a <= b
         IN  <<m>> \o SortedSeq(S \ {m})

\* np.sort(np.unique(column))
SortUnique(column) == SortedSeq({column[p] : p \in 1..Len(column)})

\* str.endswith
EndsWith(s, suf) ==
    /\ Len(s) >= Len(suf)
    /\ SubSeq(s, Len(s) - Len(suf) + 1, Len(s)) = suf

\* os.path.join of two components
PathJoin(a, b) ==
    IF b # << >> /\ b[1] = "/" THEN b
    ELSE IF a = << >> \/ a[Len(a)] = "/" THEN a \o b
    ELSE a \o <<"/">> \o b

ExtZarr == <<".", "z", "a", "r", "r">>
ExtNc == <<".", "n", "c">>

-----------------------------------------------------------------------------
(* The container file: what xr.load_dataset / xr.open_dataset hand back    *)
(* for one group.  ijk_dims counts points along axis1, axis2 and the       *)
(* plane offsets; the points are stored with axis1 fastest.                *)

UnitAxes == {<<1, 0, 0>>, <<0, 1, 0>>, <<0, 0, 1>>}
AxisVals == {-1, 0, 1}
\* every vector over AxisVals, and some that are not of unit length
Axes ==
    {<<a, b, c>> : a \in AxisVals, b \in AxisVals, c \in AxisVals}
        \cup {<<2, 0, 0>>, <<0, 2, 0>>, <<0, 0, 2>>, <<1, 2, 1>>}

SamplingTypes ==
    {"PlaneSampler", "LineSampler", "LidarSampler", "ProbeSampler", "RadarSampler"}

VelocityKeys == {"velocityx", "velocityy", "velocityz"}
OptionalKeys == {"temperature", "tke"}

\* physical coordinates of stored point p (0-based) of a group
Point(p, ijk, axis3, origin) ==
    LET i == p % ijk[1]
        j == (p \div ijk[1]) % ijk[2]
        k == p \div (ijk[1] * ijk[2])
        at(ix, iy, iz) == <<origin + 5 * ix, origin + 1 + 5 * iy, origin + 2 + 5 * iz>>
    IN  IF axis3 = <<1, 0, 0>> THEN at(k, i, j)
        ELSE IF axis3 = <<0, 1, 0>> THEN at(i, k, j)
        ELSE at(i, j, k)

\* a group of the file; `extra` points beyond ijk_dims make it malformed
MkGroup(name, type, ijk, axis3, ndt, keys, origin, extra) ==
    [name          |-> name,
     sampling_type |-> type,
     ijk_dims      |-> ijk,
     axis3         |-> axis3,
     ndt           |-> ndt,
     npts          |-> Prod(ijk) + extra,
     coordinates   |-> [p \in 1..(Prod(ijk) + extra) |-> Point(p - 1, ijk, axis3, origin)],
     keys          |-> keys]

Dims3 == {<<a, b, c>> : a \in 1..MaxN, b \in 1..MaxN, c \in 1..MaxN}

\* every grid under a z normal and the grids with a single point along axis1 or
\* axis2 under the other normals, with two time steps each
GridGroups ==
    {MkGroup(<<"g">>, "PlaneSampler", ijk, <<0, 0, 1>>, 2, VelocityKeys, 0, 0) :
        ijk \in Dims3}
    \cup {MkGroup(<<"g">>, "PlaneSampler", ijk, ax, 2, VelocityKeys, 0, 0) :
        ijk \in {d \in Dims3 : d[1] = 1 \/ d[2] = 1}, ax \in {<<1, 0, 0>>, <<0, 1, 0>>}}
AxisGroups ==
    {MkGroup(<<"g">>, "PlaneSampler", <<MaxN, 1, 1>>, ax, 1, VelocityKeys, 0, 0) :
        ax \in Axes}
TypeGroups ==
    {MkGroup(<<"g">>, t, <<1, MaxN, 1>>, <<0, 0, 1>>, 1, VelocityKeys, 0, 0) :
        t \in SamplingTypes}
VarGroups ==
    {MkGroup(<<"g">>, "PlaneSampler", <<1, 1, MaxN>>, ax, 1, VelocityKeys \cup opt, 0, 0) :
        ax \in UnitAxes, opt \in SUBSET OptionalKeys}
TimeGroups ==
    {MkGroup(<<"g">>, "PlaneSampler", <<1, 1, 1>>, <<0, 0, 1>>, n, VelocityKeys, 0, 0) :
        n \in {1, MaxNdt}}
OutGroups ==
    {MkGroup(nm, "PlaneSampler", <<1, 1, 1>>, <<0, 0, 1>>, 1, VelocityKeys, 0, 0) :
        nm \in {<<"a">>, <<"b", "1">>}}
MalformedGroups ==
    {MkGroup(<<"g">>, "PlaneSampler", <<1, 1, 1>>, <<0, 0, 1>>, n, VelocityKeys, 0, 1) :
        n \in 1..MaxNdt}
    \cup {MkGroup(<<"g">>, "PlaneSampler", <<1, 1, 1>>, <<0, 0, 1>>, 1,
                  {"velocityx", "velocityy"}, 0, 0)}

\* the groups whose metadata is extracted on its own
MetaGroups ==
    {g \in AxisGroups :
        g.axis3 \in {<<0, 0, 1>>, <<1, 1, 0>>, <<0, 1, 1>>, <<1, 0, 1>>, <<1, 1, 1>>,
                     <<0, 0, 0>>, <<1, 0, -1>>, <<2, 0, 0>>}}

-----------------------------------------------------------------------------
(* class Sampling                                                          *)

\* the attributes of a Sampling object before any group was read
SamplingInit ==
    [sampling_type |-> Unset, nx |-> Unset, ny |-> Unset, nz |-> Unset,
     ndt |-> Unset, tdi |-> Unset, tdf |-> Unset, normal |-> Unset,
     x |-> Unset, y |-> Unset, z |-> Unset, reqvars |-> Unset]

\* three independent `if`s with `elif` in their place: the first match wins
NormalFirstMatch(axis3, prev) ==
    IF axis3[1] = 1 THEN "x"
    ELSE IF axis3[2] = 1 THEN "y"
    ELSE IF axis3[3] = 1 THEN "z"
    ELSE prev

\* "identify the normal": three independent `if`s, each overwriting self.normal
Normal(axis3, prev) ==
    LET n1 == IF axis3[1] = 1 THEN "x" ELSE prev
        n2 == IF axis3[2] = 1 THEN "y" ELSE n1
        n3 == IF axis3[3] = 1 THEN "z" ELSE n2
    IN  n3

Column(ds, c) == [p \in 1..ds.npts |-> ds.coordinates[p][c]]

\* Sampling.getGroupProperties(ds=ds): the object after the call
\* (ds.num_time_steps is the default index 0..ndt-1 of that dimension)
getGroupProperties(s, ds) ==
    [s EXCEPT !.sampling_type = ds.sampling_type,
              !.nx = ds.ijk_dims[1],
              !.ny = ds.ijk_dims[2],
              !.nz = ds.ijk_dims[3],
              !.ndt = ds.ndt,
              !.tdi = 0,
              !.tdf = ds.ndt - 1,
              !.normal = Normal(ds.axis3, s.normal),
              !.x = SortUnique(Column(ds, 1)),
              !.y = SortUnique(Column(ds, 2)),
              !.z = SortUnique(Column(ds, 3))]

Raise(kind, msg) == [kind |-> kind, msg |-> msg]
NoReturn == [kind |-> None]
Returned(ds) == [kind |-> "Dataset", ds |-> ds]

Elems(s) == {s[d] : d \in 1..Len(s)}

\* `var` is a str or a list of str
StrVar(v) == [isstr |-> TRUE, str |-> v, list |-> << >>]
ListVar(v) == [isstr |-> FALSE, str |-> "", list |-> v]

\* read_single_group, lines 148-152
ReqVars(var) ==
    LET v == IF var.isstr THEN <<var.str>> ELSE var.list
    IN  IF v = <<"all">> THEN <<"u", "v", "w", "temperature", "tke">> ELSE v

\* ftime = -1 taken as an index from the end, python style
ResolveFtimeFromEnd(ftime, ndt) == IF ftime = -1 THEN ndt - 1 ELSE ftime

\* `if ftime == -1: ftime = self.ndt`
ResolveFtime(ftime, ndt) == IF ftime = -1 THEN ndt ELSE ftime

\* one label order for every normal
OrderedDimsXYZ(axis3) ==
    IF axis3 \in UnitAxes THEN <<"x", "y", "z", "samplingtimestep">> ELSE << >>

\* an unknown normal falling through to the last branch
OrderedDimsDefault(axis3) ==
    IF axis3 = <<1, 0, 0>> THEN <<"y", "z", "x", "samplingtimestep">>
    ELSE IF axis3 = <<0, 1, 0>> THEN <<"x", "z", "y", "samplingtimestep">>
    ELSE <<"x", "y", "z", "samplingtimestep">>

\* "The order of the dimensions varies depending on the `normal`";
\* << >> stands for `raise ValueError('Unknown normal plane')`
OrderedDims(axis3) ==
    IF axis3 = <<1, 0, 0>> THEN <<"y", "z", "x", "samplingtimestep">>
    ELSE IF axis3 = <<0, 1, 0>> THEN <<"x", "z", "y", "samplingtimestep">>
    ELSE IF axis3 = <<0, 0, 1>> THEN <<"x", "y", "z", "samplingtimestep">>
    ELSE << >>

\* ds[name].isel(num_time_steps=slice(...)).values, a (len(sel), npts) array, in
\* the row-major order in which reshape reads it: element e is that of selected
\* step e div npts and point e mod npts
RawSelected(ds, name, sel) ==
    [e \in 1..(Len(sel) * ds.npts) |->
        <<name, sel[((e - 1) \div ds.npts) + 1], (e - 1) % ds.npts>>]

\* reshape straight to (nx, ny, nz, ndt), without the transposition
PlaneFieldNoTranspose(flat, shape) == Reshape(flat, Reverse(shape))

\* np.reshape(flat, (ndt, nz, ny, nx)).T
PlaneField(flat, shape) ==
    LET r == Reshape(flat, shape)
    IN  IF r.ok THEN [ok |-> TRUE, a |-> Transpose(r.a, shape)] ELSE r

SourceKey(field) ==
    CASE field = "u" -> "velocityx"
      [] field = "v" -> "velocityy"
      [] field = "w" -> "velocityz"
      [] OTHER -> field

\* the field is attached whenever it is requested
AttachRequested(ds, reqvars, name) == name \in Elems(reqvars)

\* `'temperature' in list(ds.keys()) and 'temperature' in self.reqvars`
Attach(ds, reqvars, name) == name \in ds.keys /\ name \in Elems(reqvars)

\* lines 223-232: the writes issued for an output destination
SaveOps(group, outputPath) ==
    IF ~outputPath.some THEN << >>
    ELSE IF EndsWith(outputPath.val, ExtZarr)
         THEN <<[op |-> "to_zarr", path |-> outputPath.val]>>
    ELSE IF EndsWith(outputPath.val, ExtNc \o <<".">>)
         THEN <<[op |-> "to_netcdf", path |-> outputPath.val]>>
    ELSE <<[op |-> "to_zarr", path |-> PathJoin(outputPath.val, group \o ExtZarr)]>>

\* Sampling._read_plane_sampler: what it returns or raises, and what it writes
ReadPlaneSampler(s, ds, group, itime, ftime, step, outputPath) ==
    LET ft == ResolveFtime(ftime, s.ndt)
        sel == Slice(itime, ft, step, ds.ndt)
        ndt == Len(sel)
        shape == <<ndt, s.nz, s.ny, s.nx>>
        fields == {"u", "v", "w"} \cup {n \in OptionalKeys : Attach(ds, s.reqvars, n)}
        data(f) == PlaneField(RawSelected(ds, SourceKey(f), sel), shape)
        ordereddims == OrderedDims(ds.axis3)
        coords == [x |-> s.x, y |-> s.y, z |-> s.z,
                   samplingtimestep |-> Range(itime, ft, step)]
        new_all == [coords |-> coords,
                    vars |-> [f \in fields |-> [dims |-> ordereddims, data |-> data(f).a]]]
    IN  IF \E f \in {"u", "v", "w"} : SourceKey(f) \notin ds.keys
        THEN [ret |-> Raise("KeyError", "no such variable"), stores |-> << >>]
        ELSE IF ~data("u").ok
        THEN [ret |-> Raise("ValueError", "cannot reshape array"), stores |-> << >>]
        ELSE IF ordereddims = << >>
        THEN [ret |-> Raise("ValueError", "Unknown normal plane"), stores |-> << >>]
        ELSE IF \E d \in 1..4 : Len(coords[ordereddims[d]]) # Reverse(shape)[d]
        THEN [ret |-> Raise("ValueError", "conflicting sizes for dimension"),
              stores |-> << >>]
        ELSE IF \E f \in fields : SourceKey(f) \notin ds.keys   \* ds[name] of a missing variable
        THEN [ret |-> Raise("KeyError", "no such variable"), stores |-> << >>]
        ELSE [ret |-> Returned(new_all), stores |-> SaveOps(group, outputPath)]

\* a lidar group handed to the plane reader
DispatchLidarAsPlane(sampling_type) ==
    CASE sampling_type = "LineSampler" -> "_read_line_sampler"
      [] sampling_type = "LidarSampler" -> "_read_plane_sampler"
      [] sampling_type = "PlaneSampler" -> "_read_plane_sampler"
      [] sampling_type = "ProbeSampler" -> "_read_probe_sampler"
      [] OTHER -> "not recognized"

\* read_single_group, lines 157-166: the reader chosen for a sampling type
Dispatch(sampling_type) ==
    CASE sampling_type = "LineSampler" -> "_read_line_sampler"
      [] sampling_type = "LidarSampler" -> "_read_lidar_sampler"
      [] sampling_type = "PlaneSampler" -> "_read_plane_sampler"
      [] sampling_type = "ProbeSampler" -> "_read_probe_sampler"
      [] OTHER -> "not recognized"

\* Sampling.read_single_group: the object after the call, the outcome, the writes
ReadSingleGroupResult(s, ds, itime, ftime, step, outputPath, var) ==
    LET s1 == getGroupProperties([s EXCEPT !.reqvars = ReqVars(var)], ds)
        reader == Dispatch(s1.sampling_type)
        out == IF reader = "_read_plane_sampler"
               THEN ReadPlaneSampler(s1, ds, ds.name, itime, ftime, step, outputPath)
               ELSE IF reader = "not recognized"
               THEN [ret |-> Raise("ValueError", "Sampling type not recognized"),
                     stores |-> << >>]
               ELSE [ret |-> Raise("NotImplementedError", reader), stores |-> << >>]
    IN  [self |-> s1, ret |-> out.ret, stores |-> out.stores]

-----------------------------------------------------------------------------
(* The calls a client makes.  `call` records the last call and its         *)
(* arguments, `ret` what it returned or raised, `stores` and `vtk` the     *)
(* writes it issued, `held` a dataset the client kept from an earlier      *)
(* call.                                                                   *)

DefaultVar == ListVar(<<"u", "v", "w">>)
VarArgs ==
    {DefaultVar, StrVar("all"), StrVar("tke"),
     ListVar(<<"u", "v", "w", "tke">>), ListVar(<<"temperature">>)}

PathZarr == <<"o">> \o ExtZarr
PathNc == <<"o">> \o ExtNc
PathNcDot == PathNc \o <<".">>
PathDir == <<"d">>
PathDirSlash == <<"d", "/">>
OutputPaths ==
    {Absent} \cup {Some(q) : q \in {PathZarr, PathNc, PathNcDot, PathDir, PathDirSlash}}

ReadArgs(ds, itime, ftime, step, outputPath, var) ==
    [op |-> "read_single_group", group |-> ds, itime |-> itime, ftime |-> ftime,
     step |-> step, outputPath |-> outputPath, var |-> var]

\* read_single_group(group) with every other argument at its default
DefaultRead(ds) == ReadArgs(ds, 0, -1, 1, Absent, DefaultVar)

ReadCalls ==
    {ReadArgs(g, 0, -1, st, Absent, DefaultVar) : g \in GridGroups, st \in {1, MaxStep}}
    \cup {ReadArgs(g, 0, -1, 1, o, DefaultVar) :
        g \in AxisGroups \cup TypeGroups, o \in {Absent, Some(PathDir)}}
    \cup {ReadArgs(g, 0, -1, 1, Absent, v) : g \in VarGroups, v \in VarArgs}
    \cup {ReadArgs(g, 0, -1, 1, o, DefaultVar) : g \in OutGroups, o \in OutputPaths}
    \cup {ReadArgs(g, it, ft, st, Absent, DefaultVar) :
        g \in TimeGroups, it \in (-1)..(MaxNdt + 1),
        ft \in {-1, 1, MaxNdt + 1}, st \in 1..MaxStep}
    \cup {ReadArgs(g, 0, -1, 1, o, v) :
        g \in MalformedGroups, o \in {Absent, Some(PathDir)}, v \in {DefaultVar, StrVar("all")}}

Init ==
    /\ self = SamplingInit
    /\ call = [op |-> None]
    /\ ret = NoReturn
    /\ stores = << >>
    /\ vtk = << >>
    /\ held = Absent

Read(c) ==
    \E r \in {ReadSingleGroupResult(self, c.group, c.itime, c.ftime, c.step,
                                    c.outputPath, c.var)} :
        /\ self' = r.self
        /\ ret' = r.ret
        /\ stores' = r.stores
        /\ call' = c
        /\ vtk' = << >>
        /\ UNCHANGED held

\* s.read_single_group(group, itime, ftime, step, outputPath, var)
ReadSingleGroup == \E c \in ReadCalls : Read(c)

\* s.getGroupProperties(group=group)
GetGroupProperties ==
    \E g \in MetaGroups :
        /\ self' = getGroupProperties(self, g)
        /\ call' = [op |-> "getGroupProperties", group |-> g]
        /\ ret' = NoReturn
        /\ stores' = << >>
        /\ vtk' = << >>
        /\ UNCHANGED held

Next == ReadSingleGroup \/ GetGroupProperties

Spec == Init /\ [][Next]_vars

-----------------------------------------------------------------------------
(* Sampling.to_vtk and addDatetime, applied to a dataset the client kept.  *)

\* the size of each dimension of a variable of a dataset
VarShape(ds, v) == [d \in 1..Len(v.dims) |-> Len(ds.coords[v.dims[d]])]

\* the (u, v, w) records of one file: for z in zarray: for y in yarray: for x in
\* xarray: dstime.sel(x=x, y=y, z=z); the coordinates are those of ds itself, so
\* each is found at the position the loop is at
VtkRecords(ds, t) ==
    LET lx == Len(ds.coords.x)
        ly == Len(ds.coords.y)
        lz == Len(ds.coords.z)
        at(f, ix, iy, iz) ==
            LET li == [x |-> ix, y |-> iy, z |-> iz]
                dm == ds.vars[f].dims
            IN  ds.vars[f].data[<<li[dm[1]], li[dm[2]], li[dm[3]], t>>]
    IN  [r \in 1..(lx * ly * lz) |->
            LET ix == (r - 1) % lx
                iy == ((r - 1) \div lx) % ly
                iz == (r - 1) \div (lx * ly)
            IN  <<at("u", ix, iy, iz), at("v", ix, iy, iz), at("w", ix, iy, iz)>>]

\* Amb.t{t}.vtk as lines 284-299 write it: the header comes from the attributes
\* of the Sampling object, the records from the dataset
VtkFile(s, ds, t, offsetz) ==
    [t          |-> t,
     complete   |-> TRUE,
     title      |-> <<s.sampling_type, offsetz>>,
     DIMENSIONS |-> <<s.nx, s.ny, s.nz>>,
     ORIGIN     |-> <<s.x[1], s.y[1], s.z[1] + offsetz>>,
     SPACING    |-> <<s.x[2] - s.x[1], s.y[2] - s.y[1], s.z[2] - s.z[1]>>,
     POINT_DATA |-> <<s.nx * s.ny * s.nz>>,
     U          |-> <<3, s.nx * s.ny * s.nz>>,
     records    |-> VtkRecords(ds, t)]

\* the file left behind when self.x[1], self.y[1] or self.z[1] does not exist:
\* the SPACING line raises IndexError after the first six lines were written
VtkFileCut(s, t, offsetz) ==
    [t          |-> t,
     complete   |-> FALSE,
     title      |-> <<s.sampling_type, offsetz>>,
     DIMENSIONS |-> <<s.nx, s.ny, s.nz>>,
     ORIGIN     |-> <<s.x[1], s.y[1], s.z[1] + offsetz>>,
     SPACING    |-> << >>,
     POINT_DATA |-> << >>,
     U          |-> << >>,
     records    |-> << >>]

RECURSIVE VtkLoop(_, _, _, _, _)
\* `for t in np.arange(itime_i, itime_f)`: the files written and how the loop ends
VtkLoop(s, ds, t, itime_f, offsetz) ==
    IF t >= itime_f THEN [files |-> << >>, ret |-> NoReturn]
    ELSE IF t >= Len(ds.coords.samplingtimestep)
    THEN [files |-> << >>, ret |-> Raise("IndexError", "isel out of bounds")]
    ELSE IF Len(s.x) < 2 \/ Len(s.y) < 2 \/ Len(s.z) < 2
    THEN [files |-> <<VtkFileCut(s, t, offsetz)>>,
          ret |-> Raise("IndexError", "index 1 is out of bounds")]
    ELSE LET rest == VtkLoop(s, ds, t + 1, itime_f, offsetz)
         IN  [files |-> <<VtkFile(s, ds, t, offsetz)>> \o rest.files, ret |-> rest.ret]

\* Sampling.to_vtk(ds, outputPath, offsetz=, itime_i=, itime_f=) with a dataset
to_vtk(s, ds, pathExists, offsetz, itime_i, itime_f) ==
    IF ~pathExists
    THEN [files |-> << >>, ret |-> Raise("ValueError", "The output path should exist")]
    ELSE LET ndt == Len(ds.coords.samplingtimestep)
         IN  VtkLoop(s, ds, itime_i, IF itime_f = -1 THEN ndt ELSE itime_f, offsetz)

WithVar(vs, name, v) == [f \in DOMAIN vs \cup {name} |-> IF f = name THEN v ELSE vs[f]]

RenameDim(dims, old, new) ==
    [d \in 1..Len(dims) |-> IF dims[d] = old THEN new ELSE dims[d]]

\* v.mean(dim='datetime') of a variable whose last dimension is the time
MeanOverTime(ds, v) ==
    LET sh == VarShape(ds, v)
        n == Len(sh)
    IN  [dims |-> SubSeq(v.dims, 1, n - 1),
         data |-> [idx \in IndexSet(SubSeq(sh, 1, n - 1)) |->
                      <<"mean", [m \in 1..sh[n] |-> v.data[idx \o <<m - 1>>]]>>]]

\* v - mean, the mean broadcast along the time
Fluctuation(v, mean) ==
    [dims |-> v.dims,
     data |-> [idx \in DOMAIN v.data |->
                  <<"sub", v.data[idx], mean.data[SubSeq(idx, 1, Len(mean.dims))]>>]]

\* addDatetime(ds, dt, origin, computemean): what it returns or raises, and
\* `arg`, the dataset object that was passed in, as the call leaves it
addDatetime(ds, dt, origin, computemean) ==
    IF dt <= 0
    THEN [ret |-> Raise("ValueError", "The dt should be positive"), arg |-> ds]
    ELSE
    LET sts == ds.coords.samplingtimestep
        steps == [idx \in IndexSet(<<Len(sts)>>) |-> sts[idx[1] + 1]]
        \* ds['time'] = (('samplingtimestep'), ...): an assignment into ds itself
        ds1 == [ds EXCEPT !.vars =
                   WithVar(ds.vars, "time",
                           [dims |-> <<"samplingtimestep">>,
                            data |-> [idx \in DOMAIN steps |-> steps[idx] * dt]])]
        \* ds = ds.rename(...): from here on `ds` names a new object
        ds2 == [coords |-> [c \in (DOMAIN ds1.coords \ {"samplingtimestep"}) \cup {"datetime"} |->
                               IF c = "datetime" THEN sts ELSE ds1.coords[c]],
                vars |-> [f \in DOMAIN ds1.vars |->
                             [dims |-> RenameDim(ds1.vars[f].dims, "samplingtimestep", "datetime"),
                              data |-> ds1.vars[f].data]]]
        ds3 == [ds2 EXCEPT !.coords.datetime =
                   [m \in 1..Len(sts) |-> origin + ds2.vars["time"].data[<<m - 1>>]]]
        ds4 == [ds3 EXCEPT !.vars =
                   WithVar(ds3.vars, "samplingtimestep",
                           [dims |-> <<"datetime">>, data |-> steps])]
        stored == "umean" \in DOMAIN ds4.vars
        base == IF stored
                THEN [f \in DOMAIN ds4.vars \ {"umean", "vmean", "wmean"} |-> ds4.vars[f]]
                ELSE ds4.vars
        mean(f) == IF stored
                   THEN ds4.vars[CASE f = "u" -> "umean" [] f = "v" -> "vmean" [] OTHER -> "wmean"]
                   ELSE MeanOverTime(ds4, ds4.vars[f])
        ds5 == [ds4 EXCEPT !.vars =
                   [f \in DOMAIN base \cup {"up", "vp", "wp"} |->
                       CASE f = "up" -> Fluctuation(ds4.vars["u"], mean("u"))
                         [] f = "vp" -> Fluctuation(ds4.vars["v"], mean("v"))
                         [] f = "wp" -> Fluctuation(ds4.vars["w"], mean("w"))
                         [] OTHER -> base[f]]]
    IN  [ret |-> Returned(IF computemean THEN ds5 ELSE ds4), arg |-> ds1]

IsRead == call.op = "read_single_group"
ReturnedDataset == IsRead /\ ret.kind = "Dataset"

\* groups with two planes and two points along every axis, and others
PostGroups ==
    {MkGroup(<<"a">>, "PlaneSampler", <<MaxN, MaxN, MaxN>>, <<0, 0, 1>>, MaxNdt,
             VelocityKeys, 0, 0),
     MkGroup(<<"b">>, "PlaneSampler", <<1, MaxN, MaxN>>, <<1, 0, 0>>, 1,
             VelocityKeys, 100, 0),
     MkGroup(<<"c">>, "PlaneSampler", <<MaxN, MaxN, MaxN>>, <<1, 0, 0>>, 1,
             VelocityKeys \cup {"tke"}, 100, 0),
     MkGroup(<<"d">>, "LineSampler", <<MaxN, MaxN, 1>>, <<0, 0, 1>>, 1,
             VelocityKeys, 0, 0)}

\* ds = s.read_single_group(group)
ReadGroup == \E g \in PostGroups : Read(DefaultRead(g))

\* the client keeps the dataset that read_single_group just returned
Hold ==
    /\ ReturnedDataset
    /\ held # Some(ret.ds)
    /\ held' = Some(ret.ds)
    /\ UNCHANGED <<self, call, ret, stores, vtk>>

\* s.to_vtk(ds, outputPath, offsetz=, itime_i=, itime_f=) with the kept dataset
ToVtk ==
    /\ held.some
    /\ \E pathExists \in BOOLEAN, offsetz \in {0, 3}, itime_i \in 0..1,
          itime_f \in {-1, 1, MaxNdt + 1} :
          \E r \in {to_vtk(self, held.val, pathExists, offsetz, itime_i, itime_f)} :
              /\ call' = [op |-> "to_vtk", ds |-> held.val, pathExists |-> pathExists,
                          offsetz |-> offsetz, itime_i |-> itime_i, itime_f |-> itime_f]
              /\ ret' = r.ret
              /\ vtk' = r.files
              /\ stores' = << >>
              /\ UNCHANGED <<self, held>>

\* s.to_vtk(group, outputPath) with a group name: read_single_group(group) runs
\* first, and the dataset it returns has no num_time_steps
ToVtkGroup ==
    \E g \in PostGroups, pathExists \in BOOLEAN :
        \E r \in {ReadSingleGroupResult(self, g, 0, -1, 1, Absent, DefaultVar)} :
            /\ call' = [op |-> "to_vtk", group |-> g, pathExists |-> pathExists]
            /\ self' = IF pathExists THEN r.self ELSE self
            /\ ret' = IF ~pathExists
                      THEN Raise("ValueError", "The output path should exist")
                      ELSE IF r.ret.kind = "Dataset"
                      THEN Raise("AttributeError", "num_time_steps")
                      ELSE r.ret
            /\ stores' = << >>
            /\ vtk' = << >>
            /\ UNCHANGED held

\* addDatetime(ds, dt, origin, computemean) with the kept dataset
AddDatetime ==
    /\ held.some
    /\ \E dt \in {-1, 0, 1, 2}, origin \in {0, 50}, computemean \in BOOLEAN :
          \E r \in {addDatetime(held.val, dt, origin, computemean)} :
              /\ call' = [op |-> "addDatetime", ds |-> held.val, dt |-> dt,
                          origin |-> origin, computemean |-> computemean]
              /\ ret' = r.ret
              /\ held' = Some(r.arg)
              /\ stores' = << >>
              /\ vtk' = << >>
              /\ UNCHANGED self

NextPost == ReadGroup \/ Hold \/ ToVtk \/ ToVtkGroup \/ AddDatetime

SpecPost == Init /\ [][NextPost]_vars

-----------------------------------------------------------------------------
(* Properties of the reader, checked under Spec.                           *)

\* the label of the single component of a unit vector
UnitLabel(axis3) ==
    CASE axis3 = <<1, 0, 0>> -> "x" [] axis3 = <<0, 1, 0>> -> "y" [] OTHER -> "z"

\* a plane group that the reader can decode: the velocity fields are there, one
\* value per grid point, and axis3 is a unit vector
WellFormed(g) ==
    /\ g.sampling_type = "PlaneSampler"
    /\ VelocityKeys \subseteq g.keys
    /\ g.npts = Prod(g.ijk_dims)
    /\ g.axis3 \in UnitAxes

\* C1: the dimension labels of every field of a dataset returned by the plane
\* reader are fixed by axis3 alone: (y,z,x,time) for [1,0,0], (x,z,y,time) for
\* [0,1,0], (x,y,z,time) for [0,0,1]; the third label is the plane normal, time
\* is last, and u, v, w, temperature and tke all carry the same labels.
C1_LabelsFollowAxis3 ==
    ReturnedDataset =>
        LET ax == call.group.axis3
            want == CASE ax = <<1, 0, 0>> -> <<"y", "z", "x", "samplingtimestep">>
                      [] ax = <<0, 1, 0>> -> <<"x", "z", "y", "samplingtimestep">>
                      [] ax = <<0, 0, 1>> -> <<"x", "y", "z", "samplingtimestep">>
                      [] OTHER -> << >>
        IN  /\ {"u", "v", "w"} \subseteq DOMAIN ret.ds.vars
            /\ \A f \in DOMAIN ret.ds.vars :
                /\ ret.ds.vars[f].dims = want
                /\ ret.ds.vars[f].dims[3] = UnitLabel(ax)
                /\ ret.ds.vars[f].dims[3] = self.normal
                /\ ret.ds.vars[f].dims[4] = "samplingtimestep"

\* a plane with normal x was read with temperature and tke attached
C1_Witness ==
    /\ ReturnedDataset
    /\ call.group.axis3 = <<1, 0, 0>>
    /\ DOMAIN ret.ds.vars = {"u", "v", "w", "temperature", "tke"}
    /\ ret.ds.vars["tke"].dims = <<"y", "z", "x", "samplingtimestep">>

\* C2: reshape to (ndt, nz, ny, nx) followed by the reversal of the axes is a
\* bijection: the element at position (i, j, k, n) of a returned field is the raw
\* element at flat index ((n*nz + k)*ny + j)*nx + i, every raw element appears
\* exactly once, and under a z normal position (i, j, k, n) is addressed as
\* (x, y, z, time), so that the element at (0, 0, 0, 0) is raw element 0.
C2_ReshapeTransposeBijection ==
    ReturnedDataset =>
        LET g == call.group
            nx == g.ijk_dims[1]
            ny == g.ijk_dims[2]
            nz == g.ijk_dims[3]
            ndt == Len(Slice(call.itime, ResolveFtime(call.ftime, g.ndt), call.step, g.ndt))
        IN  \A f \in DOMAIN ret.ds.vars :
                LET a == ret.ds.vars[f].data
                    sel == Slice(call.itime, ResolveFtime(call.ftime, g.ndt), call.step, g.ndt)
                    raw == RawSelected(g, SourceKey(f), sel)
                IN  /\ Len(raw) = ndt * nx * ny * nz
                    /\ DOMAIN a = {<<i, j, k, n>> : i \in 0..(nx - 1), j \in 0..(ny - 1),
                                                    k \in 0..(nz - 1), n \in 0..(ndt - 1)}
                    /\ \A idx \in DOMAIN a :
                        a[idx] = raw[((idx[4] * nz + idx[3]) * ny + idx[2]) * nx + idx[1] + 1]
                    /\ \A e \in 1..Len(raw) :
                        Cardinality({idx \in DOMAIN a : a[idx] = raw[e]}) = 1
                    /\ g.axis3 = <<0, 0, 1>> =>
                        /\ ret.ds.vars[f].dims = <<"x", "y", "z", "samplingtimestep">>
                        /\ Len(ret.ds.coords.x) = nx
                        /\ Len(ret.ds.coords.y) = ny
                        /\ Len(ret.ds.coords.z) = nz
                        /\ ndt > 0 => a[<<0, 0, 0, 0>>] = raw[1]

\* a grid with different sizes in x and y and several time steps was read
C2_Witness ==
    /\ ReturnedDataset
    /\ call.group.axis3 = <<0, 0, 1>>
    /\ call.group.ijk_dims = <<MaxN, 1, MaxN>>
    /\ Len(ret.ds.coords.samplingtimestep) = 2
    /\ ret.ds.vars["u"].data[<<MaxN - 1, 0, 1, 1>>]
           = <<"velocityx", 1, MaxN + MaxN - 1>>

\* C3: reading a plane group whose axis3 is not exactly [1,0,0], [0,1,0] or
\* [0,0,1] raises ValueError; no dataset is returned and nothing is written.
C3_UnknownNormalRaises ==
    (/\ IsRead
     /\ call.group.sampling_type = "PlaneSampler"
     /\ VelocityKeys \subseteq call.group.keys
     /\ call.group.axis3 \notin UnitAxes)
        => /\ ret.kind = "ValueError"
           /\ stores = << >>
           /\ vtk = << >>

\* a vector with two 1-components was read with an output directory given
C3_Witness ==
    /\ IsRead
    /\ call.group.axis3 = <<1, 1, 0>>
    /\ call.outputPath = Some(PathDir)
    /\ ret = Raise("ValueError", "Unknown normal plane")
    /\ stores = << >>

HasOne(axis3) == \E d \in 1..3 : axis3[d] = 1
AxisLabel(d) == <<"x", "y", "z">>[d]
AfterGetGroupProperties == call.op \in {"getGroupProperties", "read_single_group"}

\* C4 as stated: the normal is the label of the lowest-index component of axis3
\* that equals 1 (first match wins).
C4_FirstMatchWins ==
    (AfterGetGroupProperties /\ HasOne(call.group.axis3)) =>
        LET first == CHOOSE d \in 1..3 :
                        /\ call.group.axis3[d] = 1
                        /\ \A e \in 1..(d - 1) : call.group.axis3[e] # 1
        IN  self.normal = AxisLabel(first)

\* C4, amended: getGroupProperties tests the components in the order x, y, z
\* and every match overwrites the previous one, so the normal is the label of
\* the highest-index component of axis3 that equals 1 (last match wins).
C4_LastMatchWins ==
    (AfterGetGroupProperties /\ HasOne(call.group.axis3)) =>
        LET last == CHOOSE d \in 1..3 :
                        /\ call.group.axis3[d] = 1
                        /\ \A e \in (d + 1)..3 : call.group.axis3[e] # 1
        IN  self.normal = AxisLabel(last)

\* getGroupProperties ran on axis3 = [1,1,0] and set the normal to y
C4_Witness ==
    /\ call.op = "getGroupProperties"
    /\ call.group.axis3 = <<1, 1, 0>>
    /\ self.normal = "y"

Requested(c) == Elems(ReqVars(c.var))
\* an optional field that the call asks for and the group lacks
AsksForAbsent(c) == {n \in OptionalKeys : n \in Requested(c) /\ n \notin c.group.keys}
\* the time window selects as many steps as range(itime, ftime, step) has entries
WindowConsistent(c) ==
    LET ft == IF c.ftime = -1 THEN c.group.ndt ELSE c.ftime
    IN  0 <= c.itime /\ ft <= c.group.ndt

\* C5 as stated: a read that asks for a variable the group lacks fails with a
\* ValueError instead of returning a dataset without the field.
C5_AbsentVariableRaises ==
    (IsRead /\ call.group.sampling_type = "PlaneSampler" /\ AsksForAbsent(call) # {})
        => ret.kind = "ValueError"

\* C5, amended: asking for temperature or tke (by name or through 'all') on a
\* plane group that lacks it is no error: a group that is otherwise readable
\* (well formed, time window within the stored steps) is read successfully and
\* the dataset has u, v, w and exactly those of temperature and tke that are both
\* requested and present in the group.
C5_AbsentVariableOmitted ==
    (IsRead /\ WellFormed(call.group) /\ WindowConsistent(call)) =>
        /\ ret.kind = "Dataset"
        /\ DOMAIN ret.ds.vars =
              {"u", "v", "w"}
                  \cup {n \in OptionalKeys : n \in Requested(call) /\ n \in call.group.keys}

\* var='all' was read on a group that has tke and no temperature
C5_Witness ==
    /\ ReturnedDataset
    /\ call.var = StrVar("all")
    /\ AsksForAbsent(call) = {"temperature"}
    /\ DOMAIN ret.ds.vars = {"u", "v", "w", "tke"}

\* C6: with an output destination exactly one write happens and its format
\* follows the destination's name: a path ending in .zarr is written as a
\* chunked store at that path, a path ending in .nc as a single archive file at
\* that path, and any other destination is a directory in which <group>.zarr is
\* written; with no destination nothing is written.
C6_WriteFollowsDestination ==
    ReturnedDataset =>
        LET o == call.outputPath
        IN  IF ~o.some THEN stores = << >>
            ELSE IF EndsWith(o.val, ExtZarr)
                 THEN stores = <<[op |-> "to_zarr", path |-> o.val]>>
            ELSE IF EndsWith(o.val, ExtNc)
                 THEN stores = <<[op |-> "to_netcdf", path |-> o.val]>>
            ELSE stores = <<[op |-> "to_zarr",
                             path |-> PathJoin(o.val, call.group.name \o ExtZarr)]>>

\* C7: read_single_group returns a dataset only for a PlaneSampler group; a
\* LineSampler, LidarSampler or ProbeSampler group ends in NotImplementedError
\* and any other sampling type in the ValueError for an unrecognized type; in
\* none of these cases is anything written.
C7_OnlyPlaneReturns ==
    IsRead =>
        LET t == call.group.sampling_type
        IN  /\ ret.kind = "Dataset" => t = "PlaneSampler"
            /\ t \in {"LineSampler", "LidarSampler", "ProbeSampler"} =>
                  /\ ret.kind = "NotImplementedError"
                  /\ stores = << >>
                  /\ vtk = << >>
            /\ t \notin {"LineSampler", "LidarSampler", "ProbeSampler", "PlaneSampler"} =>
                  /\ ret = Raise("ValueError", "Sampling type not recognized")
                  /\ stores = << >>
                  /\ vtk = << >>

\* a LidarSampler group was read with an output directory given
C7_Witness ==
    /\ IsRead
    /\ call.group.sampling_type = "LidarSampler"
    /\ call.outputPath.some
    /\ ret.kind = "NotImplementedError"
    /\ stores = << >>

\* the steps itime, itime+step, ... below ndt
StepsBelow(itime, step, ndt) ==
    [m \in 1..((ndt - itime + step - 1) \div step) |-> itime + (m - 1) * step]

\* C9: with ftime = -1 the window ends at ndt, the group's number of time
\* steps, for every 0 <= itime <= ndt and step >= 1: the read succeeds on a
\* well-formed group, and the selected time steps and the samplingtimestep
\* coordinate are both itime, itime+step, ... below ndt, one entry per step.
C9_FtimeMinusOneIsNdt ==
    (/\ IsRead
     /\ WellFormed(call.group)
     /\ call.ftime = -1
     /\ 0 <= call.itime
     /\ call.itime <= call.group.ndt
     /\ call.step >= 1)
        => LET want == StepsBelow(call.itime, call.step, call.group.ndt)
           IN  /\ ret.kind = "Dataset"
               /\ ret.ds.coords.samplingtimestep = want
               /\ \A f \in DOMAIN ret.ds.vars :
                     LET a == ret.ds.vars[f].data
                     IN  /\ {idx[4] : idx \in DOMAIN a} = 0..(Len(want) - 1)
                         /\ \A idx \in DOMAIN a : a[idx][2] = want[idx[4] + 1]

\* a read from itime = 1 to the end of the longest group
C9_Witness ==
    /\ ReturnedDataset
    /\ call.ftime = -1
    /\ call.itime = 1
    /\ call.step = MaxStep - 1
    /\ call.group.ndt = MaxNdt
    /\ ret.ds.coords.samplingtimestep = <<1, MaxStep>>

-----------------------------------------------------------------------------
(* Properties of addDatetime and to_vtk, checked under SpecPost.           *)

\* C8: addDatetime is a pure transform: whether it fails (dt <= 0) or succeeds
\* (dt > 0), the dataset passed in is left as it was, with the same variables,
\* dimension names and coordinates; the time axis, the retained
\* samplingtimestep and the fluctuation fields exist only in what is returned.
C8_ArgumentUnchanged ==
    call.op = "addDatetime" =>
        /\ held.val = call.ds
        /\ DOMAIN held.val.vars = DOMAIN call.ds.vars
        /\ ret.kind = "ValueError" <=> call.dt <= 0

\* C10: whatever groups were read before, every file that to_vtk writes for a
\* dataset returned by an earlier read carries a header describing that
\* dataset: DIMENSIONS are the lengths of its x, y, z coordinates, ORIGIN is the
\* first coordinate of each axis (z shifted by offsetz), and the POINT_DATA count
\* is the number of records written by the z, y, x loop.  (Stated of the files
\* that were written to their end.)
C10_HeaderDescribesDataset ==
    (call.op = "to_vtk" /\ "ds" \in DOMAIN call) =>
        \A n \in 1..Len(vtk) :
            LET f == vtk[n]
                c == call.ds.coords
            IN  f.complete =>
                    /\ f.DIMENSIONS = <<Len(c.x), Len(c.y), Len(c.z)>>
                    /\ f.ORIGIN = <<c.x[1], c.y[1], c.z[1] + call.offsetz>>
                    /\ f.POINT_DATA = <<Len(f.records)>>

=============================================================================
